---- MODULE Spec2Model ----
(***************************************************************************)
(* The attack-creation wizard (AttackView) and the attack-resolution flow  *)
(* (AttackConfirmView) of cogs/CogAttacks.py, as one state machine, and    *)
(* the dice parser and roller of cogs/CogRoll.py with its /roll command.   *)
(*                                                                         *)
(* Both are Discord views.  A view owns items (a dropdown, buttons); each  *)
(* callback mutates the view and, when it answers with                     *)
(* interaction.response.edit_message(view=self), re-renders the message    *)
(* from the view's items.  A user can only act on an item that the message *)
(* as last rendered shows enabled, so every callback below is guarded by   *)
(* the rendered message, never by the view's own (possibly newer) flags.   *)
(* A modal that was sent can be submitted; it can also be dismissed, which *)
(* the bot is never told about, after which the message is usable again.   *)
(***************************************************************************)
EXTENDS Integers, Sequences, FiniteSets

\* ------------------------------------------------------------- bounds

\* Most input fields the modal may accumulate before the model stops
\* accepting further Yes/No answers.
MaxModalItems == 4

\* The one character and the one attack name the commands are given.
CharacterId == 1
AttackName == "name"

\* Texts a user types into the modal's fields: '2' and '-1'; '1d4', 'x',
\* '1d4,1d6' and '1d4+<tab>1'.
ModifierTexts == {<<"2">>, <<"-", "1">>}
DamageTexts ==
    {<<"1", "d", "4">>, <<"x">>,
     <<"1", "d", "4", ",", "1", "d", "6">>,
     <<"1", "d", "4", "+", "\t", "1">>}

\* The arguments the two bonus functions are called with: levels from
\* -LevelsBelowOne + 1 to MaxLevelArg, scores from 1 - ScoresBelowOne to
\* MaxScoreArg.
LevelsBelowOne == 4
MaxLevelArg == 21
ScoresBelowOne == 3
MaxScoreArg == 31

\* Character ids /character create hands out (AUTO_INCREMENT) go up to MaxCid.
MaxCid == 5

\* The users of the channel: the one who gives the commands, and another.
Author == "author"
Users == {Author, "other"}

\* Texts a user gives to /roll.
DiceInputs ==
    {<<"1", "d", "6", "+", "2">>,
     <<"d", "2", "0", "-", "1">>,
     <<"3", "d", "1", "0">>,
     <<"3", "d", " ", "1", "0", " ", "-", " ", "3">>,
     <<"1", "d", "6", "+", "2", ",", " ", "3", "d", "7">>,
     <<"b", "a", "n", "a", "n", "a">>,
     <<"d">>,
     <<"1", "d", "6", "+">>,
     <<"1", "d", "6", "b", "a", "n", "a", "n", "a">>,
     <<"2", "d", "6", "+", "2", "d", "4">>,
     <<"1", "d", "6", " ", "1", "d", "8">>,
     <<"0", "d", "6">>,
     <<"0", "d", "6", "-", "2">>,
     <<"1", "d", "7">>,
     <<"d", "1", "0", "0">>,
     <<" ", "2", "d", "4", " ">>,
     <<"1", " ", "d", " ", "4">>,
     <<"1", "d", "6", "-", "9">>,
     <<"2", "d", "4", "+", "0">>,
     <<"1", "d", "6", "+", "\t", "2">>,
     <<"1", "d", "7", "+", "\t", "2">>,
     <<"1", "d", "4", ",", "1", "d", "6">>,
     <<"1", "d", "4", ",", "b", "a", "n", "a", "n", "a">>,
     <<"b", "a", "n", "a", "n", "a", ",", "1", "d", "4">>,
     <<"1", "d", "7", ",", "1", "d", "4">>,
     <<"1", "d", "4", ",", ",", "1", "d", "4">>,
     <<"1", "d", "4", "+", "\t", "1", ",", "1", "d", "4">>,
     <<"1", "d", "4", ",", "1", "d", "4", "+", "\t", "1">>,
     <<"1", "d", "4", ",", " ", "2", "d", "4", " ", ",", "d", "6", "-", "1">>}

\* ---------------------------------------------------- program constants

ATTRIBUTES ==
    <<"Strength", "Dexterity", "Constitution", "Intelligence", "Wisdom", "Charisma">>

\* Labels of AttackTypeDropdown's options.
TypeOptions == {"Attack Roll", "Saving Throw", "Neither"}

\* Most options one selection of the dropdown may hold (max_values); it
\* holds at least one.
MaxValues == 2

\* What a user can submit through the dropdown.
TypeSelections ==
    {v \in SUBSET TypeOptions : v # {} /\ Cardinality(v) <= MaxValues}

Range(s) == {s[i] : i \in DOMAIN s}

\* ------------------------------------------------------------ CogRoll

\* Texts are sequences of one-character strings.  The alphabet holds the
\* digits, 'd', the signs, the comma, two whitespace characters (the space
\* and the tab, both matched by \s) and letters outside the grammar.
DigitChars == <<"0", "1", "2", "3", "4", "5", "6", "7", "8", "9">>
Digits == Range(DigitChars)
Whitespace == {" ", "\t"}
Signs == {"+", "-"}

DigitValue(c) == (CHOOSE i \in DOMAIN DigitChars : DigitChars[i] = c) - 1

\* The first index at or after i whose character is not in the class: where
\* a greedy \d* or \s* starting at i ends.
RECURSIVE Span(_, _, _)
Span(s, i, class) ==
    IF i <= Len(s) /\ s[i] \in class THEN Span(s, i + 1, class) ELSE i

\* The last index at or before i whose character is not in the class.
RECURSIVE SpanBack(_, _, _)
SpanBack(s, i, class) ==
    IF i >= 1 /\ s[i] \in class THEN SpanBack(s, i - 1, class) ELSE i

\* str.strip()
strip(s) == SubSeq(s, Span(s, 1, Whitespace), SpanBack(s, Len(s), Whitespace))

\* str.split(sep), for a one-character separator.
RECURSIVE split(_, _)
split(s, sep) ==
    LET i == Span(s, 1, Range(s) \ {sep})
    IN  IF i > Len(s) THEN <<s>>
        ELSE <<SubSeq(s, 1, i - 1)>> \o split(SubSeq(s, i + 1, Len(s)), sep)

\* str.replace(' ', '')
replace_spaces(s) == SelectSeq(s, LAMBDA c : c # " ")

\* The value of a run of digits.
RECURSIVE DigitsValue(_)
DigitsValue(s) ==
    IF s = <<>> THEN 0
    ELSE DigitsValue(SubSeq(s, 1, Len(s) - 1)) * 10 + DigitValue(s[Len(s)])

\* int(s): surrounding whitespace dropped, an optional sign, then digits and
\* nothing else; any other text raises ValueError.
int_body(s) ==
    LET t == strip(s)
    IN  IF t # <<>> /\ t[1] \in Signs THEN SubSeq(t, 2, Len(t)) ELSE t

int_raises(s) == int_body(s) = <<>> \/ \E i \in DOMAIN int_body(s) : int_body(s)[i] \notin Digits

int(s) ==
    LET t == strip(s)
    IN  IF t[1] = "-" THEN -DigitsValue(int_body(s)) ELSE DigitsValue(int_body(s))

\* roll_pattern.match(s): the groups of
\*   (?P<num_dice>\d*)\s*d\s*(?P<dice_type>\d+)\s*(?P<modifier>[+-]\s*\d+)?
\* matched at the start of s; what follows the match is not looked at.  Every
\* quantifier is greedy and none can give back a character to any effect,
\* so the scan is deterministic.  An unmatched modifier group is <<>>.
roll_pattern_match(s) ==
    LET i1 == Span(s, 1, Digits)
        i2 == Span(s, i1, Whitespace)
        i3 == Span(s, i2 + 1, Whitespace)
        i4 == Span(s, i3, Digits)
        i5 == Span(s, i4, Whitespace)
        i6 == Span(s, i5 + 1, Whitespace)
        i7 == Span(s, i6, Digits)
    IN  IF i2 <= Len(s) /\ s[i2] = "d" /\ i4 > i3
        THEN [matched |-> TRUE,
              num_dice |-> SubSeq(s, 1, i1 - 1),
              dice_type |-> SubSeq(s, i3, i4 - 1),
              modifier |->
                  IF i5 <= Len(s) /\ s[i5] \in Signs /\ i7 > i6
                  THEN SubSeq(s, i5, i7 - 1)
                  ELSE <<>>]
        ELSE [matched |-> FALSE, num_dice |-> <<>>, dice_type |-> <<>>, modifier |-> <<>>]

valid_dice_types == {4, 6, 8, 10, 12, 20, 100}

SyntaxMessage == "Invalid dice specification! Example Roll: (1d6+2, 3d 10 - 3)"
DiceTypeMessage == "Invalid dice type! Valid Dice types: [4, 6, 8, 10, 12, 20]"
RollFormat == "You rolled {num_dice}d{dice_type}{modifier_str}: {dice_rolls} {sign} {abs(modifier)} = {total}"

\* One line of parse_roll's results: a message, or the parts of the roll
\* line that create_result_string formats.
Line(text, num_dice, dice_type, modifier_str, dice_rolls, sign, abs_modifier, total) ==
    [text |-> text, num_dice |-> num_dice, dice_type |-> dice_type,
     modifier_str |-> modifier_str, dice_rolls |-> dice_rolls, sign |-> sign,
     abs_modifier |-> abs_modifier, total |-> total]

Message(text) == Line(text, 0, 0, <<>>, <<>>, "", 0, 0)

\* sum(dice_rolls)
RECURSIVE sum(_)
sum(dice_rolls) ==
    IF dice_rolls = <<>> THEN 0
    ELSE sum(SubSeq(dice_rolls, 1, Len(dice_rolls) - 1)) + dice_rolls[Len(dice_rolls)]

\* Mutant of randint_lists: the draws are taken from 0 .. dice_type - 1.
randint_lists_from_zero(num_dice, dice_type) == [1..num_dice -> 0..(dice_type - 1)]

\* [random.randint(1, dice_type) for _ in range(num_dice)]: every list the
\* draws can give.
randint_lists(num_dice, dice_type) == [1..num_dice -> 1..dice_type]

\* Mutant of roll_dice: a total below zero is raised to zero.
roll_dice_clamps(dice_rolls, modifier) ==
    [dice_rolls |-> dice_rolls,
     total |-> IF sum(dice_rolls) + modifier < 0 THEN 0 ELSE sum(dice_rolls) + modifier]

\* roll_dice, given the list drawn: (dice_rolls, total).
roll_dice(dice_rolls, modifier) ==
    [dice_rolls |-> dice_rolls,
     total |-> IF modifier # 0 THEN sum(dice_rolls) + modifier ELSE sum(dice_rolls)]

abs(n) == IF n < 0 THEN -n ELSE n

create_result_string(dice_rolls, total, num_dice, dice_type, modifier, modifier_str) ==
    Line(RollFormat, num_dice, dice_type,
         IF modifier_str # <<>> THEN strip(modifier_str) ELSE <<>>,
         dice_rolls, IF modifier >= 0 THEN "+" ELSE "-", abs(modifier), total)

\* What one pass of parse_roll's loop extracts from a dice_spec, before any
\* die is drawn: no match, the ValueError of int(), an invalid dice type, or
\* the arguments of roll_dice.
Extract(kind, num_dice, dice_type, modifier, modifier_str) ==
    [kind |-> kind, num_dice |-> num_dice, dice_type |-> dice_type,
     modifier |-> modifier, modifier_str |-> modifier_str]

num_dice_of(group) == IF group # <<>> THEN DigitsValue(group) ELSE 1

extract(dice_spec) ==
    LET m == roll_pattern_match(strip(dice_spec))
    IN  IF ~m.matched THEN Extract("no match", 0, 0, 0, <<>>)
        ELSE IF m.modifier # <<>> /\ int_raises(replace_spaces(m.modifier))
        THEN Extract("ValueError", num_dice_of(m.num_dice), DigitsValue(m.dice_type), 0, m.modifier)
        ELSE LET modifier == IF m.modifier # <<>> THEN int(replace_spaces(m.modifier)) ELSE 0
             IN  IF DigitsValue(m.dice_type) \notin valid_dice_types
                 THEN Extract("invalid dice type", num_dice_of(m.num_dice),
                              DigitsValue(m.dice_type), modifier, m.modifier)
                 ELSE Extract("roll", num_dice_of(m.num_dice), DigitsValue(m.dice_type),
                              modifier, m.modifier)

\* One call of roll_dice: its arguments, what random.randint gave it, in
\* order, and what it returned.
Call(num_dice, dice_type, modifier, draws, rolled_dice) ==
    [num_dice |-> num_dice, dice_type |-> dice_type, modifier |-> modifier,
     draws |-> draws, dice_rolls |-> rolled_dice.dice_rolls, total |-> rolled_dice.total]

\* A run of parse_roll, or of a part of it: the results appended, the calls
\* of roll_dice made, and whether it ended in an exception.
Run(results, calls, raised) == [results |-> results, calls |-> calls, raised |-> raised]

\* One pass of parse_roll's loop over a dice_spec: every run the draws allow.
parse_roll_pass(dice_spec) ==
    LET e == extract(dice_spec)
    IN  IF e.kind = "no match" THEN {Run(<<Message(SyntaxMessage)>>, <<>>, FALSE)}
        ELSE IF e.kind = "ValueError" THEN {Run(<<>>, <<>>, TRUE)}
        ELSE IF e.kind = "invalid dice type" THEN {Run(<<Message(DiceTypeMessage)>>, <<>>, FALSE)}
        ELSE {Run(<<create_result_string(roll_dice(r, e.modifier).dice_rolls,
                                         roll_dice(r, e.modifier).total,
                                         e.num_dice, e.dice_type, e.modifier, e.modifier_str)>>,
                  <<Call(e.num_dice, e.dice_type, e.modifier, r, roll_dice(r, e.modifier))>>,
                  FALSE) :
                 r \in randint_lists(e.num_dice, e.dice_type)}

\* parse_roll(dice_specs): the passes in list order; an exception ends the
\* loop and nothing is returned.
RECURSIVE parse_roll(_)
parse_roll(dice_specs) ==
    IF dice_specs = <<>> THEN {Run(<<>>, <<>>, FALSE)}
    ELSE UNION {IF p.raised THEN {p}
                ELSE {Run(IF q.raised THEN <<>> ELSE p.results \o q.results,
                          p.calls \o q.calls, q.raised) :
                         q \in parse_roll(Tail(dice_specs))} :
                   p \in parse_roll_pass(Head(dice_specs))}

\* ---------------------------------------------------------- CogAttacks

\* custom_ids of AttackView's item groups, in the order they are built.
DropdownId == "dropdown"
attr_buttons == SelectSeq(ATTRIBUTES, LAMBDA a : a # "Constitution")
target_buttons == [i \in DOMAIN ATTRIBUTES |-> ATTRIBUTES[i] \o "_target"]
confirm_buttons == <<"Yes", "No">>

\* Labels of the modal's input fields.
ModifiersLabel == "ATTACK ROLL MODIFIERS / SAVE DC MODIFIERS"
DamageLabel == "DAMAGE ROLL"

\* Message contents of the wizard.
CreatingContent == "Creating {}: {}"
AttrContent == "**Select the attack's attribute. (Ability modifier added to attack roll.)**"
TargetContent == "**Select attribute of saving throw.**"
ProficientContent == "**Are you proficient in this attack?**"
CreatedContent == "Created {}'s {}!"

\* A Python value that is an int (the initial modifiers) or a str (a field's
\* text), in one shape.
IntVal(n) == [tag |-> "int", int |-> n, str |-> <<>>]
StrVal(s) == [tag |-> "str", int |-> 0, str |-> s]

\* ---------------------------------------------------- bonus functions

BASE_DC == 8
PROF_INIT_BONUS == 2
ABILITY_DEFAULT == 10

\* Mutant of calc_proficiency_bonus: the level is not lowered by one before
\* it is divided.
calc_proficiency_bonus_from_level(char_level, modifiers) ==
    IF char_level < 1 THEN 0 + modifiers
    ELSE (char_level \div 4) + PROF_INIT_BONUS + modifiers

\* calc_proficiency_bonus; floor of the true quotient is \div.
calc_proficiency_bonus(char_level, modifiers) ==
    IF char_level < 1 THEN 0 + modifiers
    ELSE ((char_level - 1) \div 4) + PROF_INIT_BONUS + modifiers

\* Mutant of calc_ability_modifier: the quotient is rounded toward zero.
calc_ability_modifier_truncates(ability_score, modifiers) ==
    (IF ability_score >= ABILITY_DEFAULT
     THEN (ability_score - ABILITY_DEFAULT) \div 2
     ELSE -((ABILITY_DEFAULT - ability_score) \div 2)) + modifiers

\* calc_ability_modifier
calc_ability_modifier(ability_score, modifiers) ==
    ((ability_score - ABILITY_DEFAULT) \div 2) + modifiers

\* The arguments the two functions are called with on their own.
LevelArgs == (1 - LevelsBelowOne)..MaxLevelArg
ScoreArgs == (1 - ScoresBelowOne)..MaxScoreArg

\* ---------------------------------------------------------- characters

\* A row of table characters, with the columns the attack commands read.
Character(cid, uid, name, level, scores) ==
    [cid |-> cid, uid |-> uid, name |-> name, level |-> level,
     strength |-> scores[1], dexterity |-> scores[2], constitution |-> scores[3],
     intelligence |-> scores[4], wisdom |-> scores[5], charisma |-> scores[6]]

NoCharacter == Character(0, "", "", 0, <<0, 0, 0, 0, 0, 0>>)

\* The character the attack commands are given, by name.
CharacterName == "character"
TheCharacter == Character(CharacterId, Author, CharacterName, 5, <<8, 15, 10, 7, 20, 13>>)

\* str.lower() of an attribute's name: the column of its score.
lower(attribute) ==
    CASE attribute = "Strength" -> "strength"
      [] attribute = "Dexterity" -> "dexterity"
      [] attribute = "Constitution" -> "constitution"
      [] attribute = "Intelligence" -> "intelligence"
      [] attribute = "Wisdom" -> "wisdom"
      [] attribute = "Charisma" -> "charisma"

\* Column modifiers of table attacks is INT NOT NULL: the row read back
\* holds the number the text inserted stands for.
modifiers_column(value) == IF value.tag = "int" THEN value.int ELSE int(value.str)

\* str(n)
RECURSIVE str_digits(_)
str_digits(n) ==
    IF n < 10 THEN <<DigitChars[n + 1]>>
    ELSE str_digits(n \div 10) \o <<DigitChars[(n % 10) + 1]>>

str(n) == IF n < 0 THEN <<"-">> \o str_digits(-n) ELSE str_digits(n)

\* Mutant of total_bonus: the proficiency bonus is added whether or not the
\* attack is proficient.
total_bonus_always_proficient(character, attack) ==
    calc_ability_modifier(character[lower(attack.attribute)], 0)
        + calc_proficiency_bonus(character.level, 0)
        + modifiers_column(attack.modifiers)

\* ability_modifier + prof_bonus + attack_bonus of show_attack and of
\* show_save; the BOOL column proficient reads 1 or 0.
total_bonus(character, attack) ==
    calc_ability_modifier(character[lower(attack.attribute)], 0)
        + calc_proficiency_bonus(character.level, 0) * (IF attack.proficient THEN 1 ELSE 0)
        + modifiers_column(attack.modifiers)

\* show_attack, given the d20 drawn: the call of roll_dice and the line of
\* create_result_string that 'Does your attack hit?' follows.
show_attack(character, attack, draws) ==
    LET bonus == total_bonus(character, attack)
        total_bonus_str == (IF bonus >= 0 THEN <<"+">> ELSE <<>>) \o str(bonus)
        rolled_dice == roll_dice(draws, bonus)
    IN  [call |-> Call(1, 20, bonus, draws, rolled_dice),
         line |-> create_result_string(rolled_dice.dice_rolls, rolled_dice.total,
                                       1, 20, bonus, total_bonus_str)]

\* Mutant of show_save: the score is that of the save's target.
show_save_of_target(character, attack) ==
    total_bonus(character, [attack EXCEPT !.attribute = attack.target]) + BASE_DC

\* show_save: the save DC shown.
show_save(character, attack) == total_bonus(character, attack) + BASE_DC

\* ------------------------------------------------------------- state

VARIABLES
    \* AttackView
    types,            \* self.types, a list used only through membership
    attr,             \* self.attr
    target,           \* self.target
    proficient,       \* self.proficient
    modifiers,        \* self.modifiers
    damage_roll,      \* self.damage_roll
    dropdown,         \* self.dropdown: values, placeholder
    wizard_children,  \* the view's items, in add_item order
    wizard_disabled,  \* custom_ids of the items whose .disabled is True
    wizard_success,   \* custom_ids of the buttons styled success
    input_modal,      \* self.input_modal's fields (labels), in add_item order
    modal_open,       \* the modal was sent and not yet submitted
    wizard_message,   \* the wizard's message as last rendered
    visited,          \* history: the wizard states entered, in order
    \* database
    attacks,          \* rows of table attacks, in insertion order
    \* AttackConfirmView
    _attack,          \* self._attack
    _hit,             \* self._hit
    _failed,          \* self._failed
    _content,         \* self._content, one block per appended '\n' + text
    confirm_children, \* the view's items
    confirm_disabled, \* custom_ids of the buttons whose .disabled is True
    confirm_message,  \* the flow's message as last rendered
    _character,       \* self._character
    \* /roll
    dice,             \* the command's option
    response,         \* what ctx.respond was given, or the exception raised
    \* database
    characters,       \* rows of table characters, in insertion order
    next_cid,         \* the AUTO_INCREMENT counter of characters.cid
    \* DeleteCharacter
    delete_view,      \* the view's dbEntry, while its button can be used
    \* calc_proficiency_bonus, calc_ability_modifier called on their own
    calc_args,        \* char_level and ability_score
    calc_return,      \* what the call returned
    shown,            \* the line show_attack or show_save made, called on its own
    \* history
    rolled,           \* the calls of roll_dice made, in order
    user              \* interaction.user of the last command or event

wizardVars ==
    <<types, attr, target, proficient, modifiers, damage_roll, dropdown,
      wizard_children, wizard_disabled, wizard_success, input_modal, modal_open,
      wizard_message, visited>>

flowVars ==
    <<_attack, _character, _hit, _failed, _content, confirm_children,
      confirm_disabled, confirm_message>>

rollVars == <<dice, response>>

charVars == <<characters, next_cid, delete_view>>

calcVars == <<calc_args, calc_return, shown>>

vars == <<wizardVars, attacks, flowVars, rollVars, charVars, calcVars, rolled, user>>

\* ------------------------------------------------------------ rendering

\* What edit_message(content=..., view=self) shows: the content and the
\* view's items, of which those not disabled can be used.
Render(content, children, disabled) ==
    [content |-> content, enabled |-> Range(children) \ disabled]

\* ------------------------------------------------------- AttackView

\* The wizard's state, read off what the user is shown.
WizardStateOf(message, open) ==
    IF message.content = CreatedContent THEN "Complete"
    ELSE IF open THEN "CollectModifiersAndDamage"
    ELSE IF message.content = CreatingContent THEN "SelectRollTypes"
    ELSE IF message.content = AttrContent THEN "SelectAttribute"
    ELSE IF message.content = TargetContent THEN "SelectSavingThrowTarget"
    ELSE "SelectProficiency"

WizardState == WizardStateOf(wizard_message, Len(input_modal) > 0)

\* The history variable: a state is entered when the shown state changes.
Enter(old, new) == IF new = old THEN visited ELSE Append(visited, new)

\* Mutant of effective_types: 'Neither' does not supersede the other options.
effective_types_keeps_all(values) == values

\* type_callback: the selection copied, 'Neither' superseding the rest.
effective_types(values) ==
    IF "Neither" \in values THEN {"Neither"} ELSE values

type_placeholder(t) ==
    IF "Neither" \in t THEN "No attack roll needed"
    ELSE IF "Attack Roll" \in t /\ "Saving Throw" \in t THEN "Attack Roll and Saving Throw"
    ELSE IF "Attack Roll" \in t THEN "Attack Roll"
    ELSE IF "Saving Throw" \in t THEN "Saving Throw"
    ELSE "you shouldn't see this"

\* type_callback: which prompt follows the type selection.
type_next(t) ==
    IF "Neither" \notin t THEN "prompt_attack_attr" ELSE "prompt_is_proficient"

\* Mutants of attr_next: the test for 'Saving Throw' inverted; the save
\* target asked whatever the type set.
attr_next_inverted(t) ==
    IF "Saving Throw" \notin t THEN "prompt_save_target" ELSE "prompt_is_proficient"

attr_next_always_target(t) == "prompt_save_target"

\* attr_callback: which prompt follows the attribute.
attr_next(t) ==
    IF "Saving Throw" \in t THEN "prompt_save_target" ELSE "prompt_is_proficient"

\* The items a prompt_* method adds to the view.
prompt_items(prompt) ==
    IF prompt = "prompt_attack_type" THEN <<DropdownId>>
    ELSE IF prompt = "prompt_attack_attr" THEN attr_buttons
    ELSE IF prompt = "prompt_save_target" THEN target_buttons
    ELSE confirm_buttons

\* The content edit_message is given after a prompt_* call.
prompt_content(prompt) ==
    IF prompt = "prompt_attack_attr" THEN AttrContent
    ELSE IF prompt = "prompt_save_target" THEN TargetContent
    ELSE ProficientContent

\* DamageModal.initialize: the fields one call adds.
initialize(neither) ==
    IF ~neither THEN <<ModifiersLabel, DamageLabel>> ELSE <<DamageLabel>>

\* AttackView.__init__, answered by /attack add with 'Creating ...'.
WizardInit ==
    /\ types = {}
    /\ attr = ATTRIBUTES[1]
    /\ target = ATTRIBUTES[1]
    /\ proficient = FALSE
    /\ modifiers = IntVal(0)
    /\ damage_roll = <<>>
    /\ dropdown = [values |-> {}, placeholder |-> "Select rolls for {}'s [{}]?"]
    /\ wizard_children = prompt_items("prompt_attack_type")
    /\ wizard_disabled = {}
    /\ wizard_success = {}
    /\ input_modal = <<>>
    /\ modal_open = FALSE
    /\ wizard_message = Render(CreatingContent, prompt_items("prompt_attack_type"), {})
    /\ visited = <<"SelectRollTypes">>

type_callback(values) ==
    /\ DropdownId \in wizard_message.enabled
    /\ LET t == effective_types(values)
           next == type_next(t)
           children == wizard_children \o prompt_items(next)
           disabled == wizard_disabled \cup {DropdownId}
           message == Render(prompt_content(next), children, disabled)
       IN  /\ types' = t
           /\ dropdown' = [values |-> values, placeholder |-> type_placeholder(t)]
           /\ wizard_disabled' = disabled
           /\ wizard_children' = children
           /\ wizard_message' = message
           /\ visited' = Enter(WizardState, WizardStateOf(message, Len(input_modal) > 0))
    /\ UNCHANGED <<attr, target, proficient, modifiers, damage_roll, wizard_success,
                   input_modal, modal_open, attacks, flowVars, rollVars, rolled,
                   charVars, calcVars>>

attr_callback(custom_id) ==
    /\ custom_id \in Range(attr_buttons)
    /\ custom_id \in wizard_message.enabled
    /\ LET next == attr_next(types)
           children == wizard_children \o prompt_items(next)
           disabled == wizard_disabled \cup Range(attr_buttons)
           message == Render(prompt_content(next), children, disabled)
       IN  /\ attr' = custom_id
           /\ wizard_success' = wizard_success \cup {b \in Range(attr_buttons) : b = custom_id}
           /\ wizard_disabled' = disabled
           /\ wizard_children' = children
           /\ wizard_message' = message
           /\ visited' = Enter(WizardState, WizardStateOf(message, Len(input_modal) > 0))
    /\ UNCHANGED <<types, target, proficient, modifiers, damage_roll, dropdown,
                   input_modal, modal_open, attacks, flowVars, rollVars, rolled,
                   charVars, calcVars>>

\* custom_id[:-len('_target')]
strip_target(custom_id) ==
    CHOOSE a \in Range(ATTRIBUTES) : a \o "_target" = custom_id

target_callback(custom_id) ==
    /\ custom_id \in Range(target_buttons)
    /\ custom_id \in wizard_message.enabled
    /\ LET children == wizard_children \o prompt_items("prompt_is_proficient")
           disabled == wizard_disabled \cup Range(target_buttons)
           message == Render(ProficientContent, children, disabled)
       IN  /\ target' = strip_target(custom_id)
           /\ wizard_success' = wizard_success \cup {custom_id}
           /\ wizard_disabled' = disabled
           /\ wizard_children' = children
           /\ wizard_message' = message
           /\ visited' = Enter(WizardState, WizardStateOf(message, Len(input_modal) > 0))
    /\ UNCHANGED <<types, attr, proficient, modifiers, damage_roll, dropdown,
                   input_modal, modal_open, attacks, flowVars, rollVars, rolled,
                   charVars, calcVars>>

\* Mutant of confirm_disables: the buttons are left enabled.
confirm_disables_nothing == {}

\* The buttons confirm_callback's loop disables: both, whichever was used.
confirm_disables == Range(confirm_buttons)

\* confirm_callback, with prompt_damage_and_modifiers: the answer is
\* send_modal, so the message keeps showing what it showed.
confirm_callback(custom_id) ==
    /\ custom_id \in Range(confirm_buttons)
    /\ custom_id \in wizard_message.enabled
    /\ LET fields == input_modal \o initialize("Neither" \in types)
       IN  /\ Len(fields) <= MaxModalItems
           /\ proficient' = (custom_id = "Yes")
           /\ wizard_success' = wizard_success \cup {custom_id}
           /\ wizard_disabled' = wizard_disabled \cup confirm_disables
           /\ input_modal' = fields
           /\ modal_open' = TRUE
           /\ visited' = Enter(WizardState, WizardStateOf(wizard_message, Len(fields) > 0))
    /\ UNCHANGED <<types, attr, target, modifiers, damage_roll, dropdown,
                   wizard_children, wizard_message, attacks, flowVars, rollVars, rolled,
                   charVars, calcVars>>

\* return_data, as insert_attack writes it.
return_data(mods, dmg) ==
    [cid |-> CharacterId,
     name |-> AttackName,
     attack_roll |-> "Attack Roll" \in types,
     saving_throw |-> "Saving Throw" \in types,
     attribute |-> attr,
     target |-> target,
     proficient |-> proficient,
     modifiers |-> mods,
     damage_roll |-> dmg]

\* Mutant of children_read: the two fields read in the other order.
children_read_swapped(neither) ==
    IF neither THEN [modifiers |-> 0, damage_roll |-> 1]
    ELSE [modifiers |-> 2, damage_roll |-> 1]

\* The fields modal_callback reads, by position (children[0] is field 1):
\* with 'Neither' the first is the damage roll and modifiers is not
\* assigned (0); otherwise the first is modifiers, the second the damage roll.
children_read(neither) ==
    IF neither THEN [modifiers |-> 0, damage_roll |-> 1]
    ELSE [modifiers |-> 1, damage_roll |-> 2]

\* modal_callback, with insert_attack; values[i] is children[i].value.
modal_callback(values) ==
    /\ modal_open
    /\ Len(values) = Len(input_modal)
    /\ LET message == Render(CreatedContent, wizard_children, wizard_disabled)
           read == children_read("Neither" \in types)
           mods == IF read.modifiers = 0 THEN modifiers ELSE StrVal(values[read.modifiers])
           dmg == values[read.damage_roll]
       IN  /\ wizard_message' = message
           /\ modifiers' = mods
           /\ damage_roll' = dmg
           /\ attacks' = Append(attacks, return_data(mods, dmg))
           /\ modal_open' = FALSE
           /\ visited' = Enter(WizardState, WizardStateOf(message, Len(input_modal) > 0))
    /\ UNCHANGED <<types, attr, target, proficient, dropdown, wizard_children,
                   wizard_disabled, wizard_success, input_modal, flowVars, rollVars, rolled,
                   charVars, calcVars>>

\* What a user can type into the modal's fields: field i takes a modifier
\* text or a damage text according to its label.
RECURSIVE FieldValues(_)
FieldValues(labels) ==
    IF labels = <<>> THEN {<<>>}
    ELSE {<<v>> \o rest :
             v \in (IF Head(labels) = ModifiersLabel THEN ModifierTexts ELSE DamageTexts),
             rest \in FieldValues(Tail(labels))}

ModalValues == FieldValues(input_modal)

\* -------------------------------------------------- AttackConfirmView

\* custom_ids of AttackConfirmView's buttons.
RollId == "Attack"
_attack_buttons == <<"aYes", "aNo">>
_save_buttons == <<"Yes", "No">>

\* The blocks the flow appends to its content.  The attack block leaves
\* out the numbers of its roll line (show_attack gives them); the save block
\* carries the save DC; the damage block is the line parse_roll returned.
Block(kind, text, line) == [kind |-> kind, text |-> text, line |-> line]
InitBlock == Block("init", "{} uses {}!", Message(""))
AttackBlock == Block("attack", "Does your attack hit?", Message(""))
SaveBlock(save_target, dc) ==
    Block("save",
          "Did your target fail their saving throw? (**" \o save_target \o " Save DC: {}**)",
          [Message("{} Save DC: {}") EXCEPT !.total = dc])
DamageBlock(line) == Block("damage", line.text, line)
FailedBlock == Block("failed", "D:", Message(""))

\* The flow's attack before any /attack roll: no row.
NoAttack ==
    [cid |-> 0, name |-> "", attack_roll |-> FALSE, saving_throw |-> FALSE,
     attribute |-> "", target |-> "", proficient |-> FALSE,
     modifiers |-> IntVal(0), damage_roll |-> <<>>]

\* The flow's state, read off what the user is shown: the buttons of the
\* message and the last block of the content.
FlowStateOf(content, message) ==
    IF content = <<>> THEN "None"
    ELSE IF RollId \in message.enabled THEN "Idle"
    ELSE IF content[Len(content)].kind = "attack" THEN "AttackRollPrompt"
    ELSE IF content[Len(content)].kind = "save" THEN "SavingThrowPrompt"
    ELSE IF content[Len(content)].kind = "damage" THEN "Complete"
    ELSE "Failed"

FlowState == FlowStateOf(_content, confirm_message)

Remove(children, ids) == SelectSeq(children, LAMBDA c : c \notin ids)

\* Mutants of roll_prompt_next: the save-only branch missing; the save
\* tested before the attack roll.
roll_prompt_next_skips_save(attack) ==
    IF attack.attack_roll THEN "show_attack" ELSE "roll_damage"

roll_prompt_next_save_first(attack) ==
    IF attack.saving_throw THEN "show_save"
    ELSE IF attack.attack_roll THEN "show_attack"
    ELSE "roll_damage"

\* roll_prompt_callback: the step that follows 'Roll attack!'.
roll_prompt_next(attack) ==
    IF attack.attack_roll THEN "show_attack"
    ELSE IF attack.saving_throw THEN "show_save"
    ELSE "roll_damage"

\* Mutants of attack_hit_next: the save shown without testing the hit; the
\* hit tested before the save.
attack_hit_next_ignores_miss(attack, hit) ==
    IF attack.saving_throw THEN "show_save"
    ELSE IF hit THEN "roll_damage"
    ELSE "failed_attack"

attack_hit_next_damage_first(attack, hit) ==
    IF hit THEN "roll_damage"
    ELSE IF attack.saving_throw /\ hit THEN "show_save"
    ELSE "failed_attack"

\* attack_hit_callback: the step that follows the hit confirmation.
attack_hit_next(attack, hit) ==
    IF attack.saving_throw /\ hit THEN "show_save"
    ELSE IF hit THEN "roll_damage"
    ELSE "failed_attack"

\* Mutant of save_failed_next: the answer inverted.
save_failed_next_inverted(failed) ==
    IF failed THEN "failed_attack" ELSE "roll_damage"

\* save_failed_callback: the step that follows the save confirmation.
save_failed_next(failed) ==
    IF failed THEN "roll_damage" ELSE "failed_attack"

\* The buttons a step adds before it shows its block (prompt_attack_hit,
\* prompt_save_failed).
step_buttons(step) ==
    IF step = "show_attack" THEN _attack_buttons
    ELSE IF step = "show_save" THEN _save_buttons
    ELSE <<>>

\* roll_damage's call of parse_roll: the damage text as a list of one
\* dice_spec.
roll_damage(attack) == parse_roll(<<attack.damage_roll>>)

\* The runs of parse_roll a step can see: those of roll_damage, and for any
\* other step one run that parses nothing.
step_runs(step, attack) ==
    IF step = "roll_damage" THEN roll_damage(attack)
    ELSE {Run(<<Message("")>>, <<>>, FALSE)}

\* The block show_attack, show_save, roll_damage or failed_attack appends;
\* roll_damage appends results[0].
step_block(step, results) ==
    IF step = "show_attack" THEN AttackBlock
    ELSE IF step = "show_save"
    THEN SaveBlock(_attack.target, show_save(_character, _attack))
    ELSE IF step = "roll_damage" THEN DamageBlock(results[1])
    ELSE FailedBlock

\* No /attack roll was given yet.
FlowInit ==
    /\ _attack = NoAttack
    /\ _character = NoCharacter
    /\ _hit = FALSE
    /\ _failed = FALSE
    /\ _content = <<>>
    /\ confirm_children = <<>>
    /\ confirm_disabled = {}
    /\ confirm_message = Render("", <<>>, {})

\* db.getOne("attacks", ..., cid and name): the first matching row.
getOne(rows, cid, name) ==
    LET hits == SelectSeq(rows, LAMBDA r : r.cid = cid /\ r.name = name)
    IN  IF hits = <<>> THEN NoAttack ELSE hits[1]

\* db.getOne("characters", ..., uid and name): the first matching row.
getCharacter(rows, uid, name) ==
    LET hits == SelectSeq(rows, LAMBDA r : r.uid = uid /\ r.name = name)
    IN  IF hits = <<>> THEN NoCharacter ELSE hits[1]

\* /attack roll: the character and its attack are looked up and
\* AttackConfirmView built on them.
attack_roll_command ==
    /\ _content = <<>>
    /\ getCharacter(characters, Author, CharacterName) # NoCharacter
    /\ getOne(attacks, getCharacter(characters, Author, CharacterName).cid, AttackName)
           # NoAttack
    /\ _character' = getCharacter(characters, Author, CharacterName)
    /\ _attack' =
           getOne(attacks, getCharacter(characters, Author, CharacterName).cid, AttackName)
    /\ _hit' = FALSE
    /\ _failed' = FALSE
    /\ _content' = <<InitBlock>>
    /\ confirm_children' = <<RollId>>
    /\ confirm_disabled' = {}
    /\ confirm_message' = Render(InitBlock.text, <<RollId>>, {})
    /\ UNCHANGED <<wizardVars, attacks, rollVars, rolled, charVars, calcVars>>

\* Mutant of FlowStep: the content is replaced by the step's block.
FlowStep_replaces_content(step, children, disabled) ==
    /\ confirm_children' = children \o step_buttons(step)
    /\ confirm_disabled' = disabled
    /\ \E run \in step_runs(step, _attack) :
           /\ rolled' = rolled \o run.calls
           /\ IF run.raised
              THEN UNCHANGED <<_content, confirm_message>>
              ELSE /\ _content' = <<step_block(step, run.results)>>
                   /\ confirm_message' =
                          Render(step_block(step, run.results).text,
                                 children \o step_buttons(step), disabled)

\* A step of the flow: its buttons added to the view, its block appended to
\* the content, and the message edited to show both.  When parse_roll
\* raises, the callback ends there: the view keeps what was done to it, the
\* content and the message stay as they were.
FlowStep(step, children, disabled) ==
    /\ confirm_children' = children \o step_buttons(step)
    /\ confirm_disabled' = disabled
    /\ \E run \in step_runs(step, _attack) :
           /\ rolled' = rolled \o run.calls
           /\ IF run.raised
              THEN UNCHANGED <<_content, confirm_message>>
              ELSE /\ _content' = Append(_content, step_block(step, run.results))
                   /\ confirm_message' =
                          Render(step_block(step, run.results).text,
                                 children \o step_buttons(step), disabled)

roll_prompt_callback ==
    /\ RollId \in confirm_message.enabled
    /\ FlowStep(roll_prompt_next(_attack), Remove(confirm_children, {RollId}),
                confirm_disabled)
    /\ UNCHANGED <<_attack, _character, _hit, _failed, wizardVars, attacks, rollVars,
                   charVars, calcVars>>

attack_hit_callback(custom_id) ==
    /\ custom_id \in Range(_attack_buttons)
    /\ custom_id \in confirm_message.enabled
    /\ _hit' = (custom_id = "aYes")
    /\ FlowStep(attack_hit_next(_attack, custom_id = "aYes"),
                Remove(confirm_children, Range(_attack_buttons)),
                confirm_disabled \cup Range(_attack_buttons))
    /\ UNCHANGED <<_attack, _character, _failed, wizardVars, attacks, rollVars,
                   charVars, calcVars>>

save_failed_callback(custom_id) ==
    /\ custom_id \in Range(_save_buttons)
    /\ custom_id \in confirm_message.enabled
    /\ _failed' = (custom_id = "Yes")
    /\ FlowStep(save_failed_next(custom_id = "Yes"),
                Remove(confirm_children, Range(_save_buttons)),
                confirm_disabled \cup Range(_save_buttons))
    /\ UNCHANGED <<_attack, _character, _hit, wizardVars, attacks, rollVars,
                   charVars, calcVars>>

\* ------------------------------------------------------ specification

\* No /roll was given.
NoResponse == [status |-> "none", lines |-> <<>>]

RollIdle ==
    /\ dice = <<>>
    /\ response = NoResponse
    /\ rolled = <<>>

\* The author has the one character; no /character command was given.
NoView == [cid |-> 0, name |-> ""]

CharIdle ==
    /\ characters = <<TheCharacter>>
    /\ next_cid = CharacterId + 1
    /\ delete_view = NoView

\* Neither bonus function was called on its own.
NoReturn == [of |-> "none", value |-> 0]

CalcIdle ==
    /\ calc_args = [char_level |-> 1, ability_score |-> ABILITY_DEFAULT]
    /\ calc_return = NoReturn
    /\ shown = Message("")

Init ==
    /\ WizardInit /\ attacks = <<>> /\ FlowInit /\ RollIdle /\ CharIdle /\ CalcIdle
    /\ user = Author

\* The wizard's message is ephemeral: only the author of /attack add is
\* shown it, so only they can send its events.  The flow's message is an
\* ordinary one: every user of the channel is shown its buttons, and no
\* callback looks at interaction.user.
Next ==
    \/ \E values \in TypeSelections : type_callback(values) /\ user' = Author
    \/ \E custom_id \in Range(attr_buttons) : attr_callback(custom_id) /\ user' = Author
    \/ \E custom_id \in Range(target_buttons) : target_callback(custom_id) /\ user' = Author
    \/ \E custom_id \in Range(confirm_buttons) : confirm_callback(custom_id) /\ user' = Author
    \/ \E values \in ModalValues : modal_callback(values) /\ user' = Author
    \/ attack_roll_command /\ user' = Author
    \/ \E u \in Users : roll_prompt_callback /\ user' = u
    \/ \E u \in Users, custom_id \in Range(_attack_buttons) :
           attack_hit_callback(custom_id) /\ user' = u
    \/ \E u \in Users, custom_id \in Range(_save_buttons) :
           save_failed_callback(custom_id) /\ user' = u

Spec == Init /\ [][Next]_vars

\* ------------------------------------------------------------- /roll

\* roll_dice_command: the option split on commas, parsed and rolled, and the
\* lines joined into one response; an exception of parse_roll leaves the
\* command without one.
roll_dice_command ==
    /\ response = NoResponse
    /\ \E run \in parse_roll(split(dice, ",")) :
           /\ response' =
                  IF run.raised THEN [status |-> "raised", lines |-> <<>>]
                  ELSE [status |-> "responded", lines |-> run.results]
           /\ rolled' = run.calls
    /\ UNCHANGED <<dice, wizardVars, attacks, flowVars, charVars, calcVars>>

\* A /roll with any of the texts, and nothing else going on.
InitRoll ==
    /\ WizardInit /\ attacks = <<>> /\ FlowInit /\ CharIdle /\ CalcIdle
    /\ dice \in DiceInputs
    /\ response = NoResponse
    /\ rolled = <<>>
    /\ user = Author

NextRoll == roll_dice_command /\ user' = Author

SpecRoll == InitRoll /\ [][NextRoll]_vars

\* ------------------------------------------- AttackResolutionFlow claims

HasBlock(kind) == \E i \in DOMAIN _content : _content[i].kind = kind

CountBlocks(kind) == Cardinality({i \in DOMAIN _content : _content[i].kind = kind})

\* The hit confirmation, or the save confirmation, was asked and answered.
HitAnswered == HasBlock("attack") /\ FlowState # "AttackRollPrompt"
SaveAnswered == HasBlock("save") /\ FlowState # "SavingThrowPrompt"

\* C1: when the attack needs an attack roll and the hit confirmation is
\* answered 'miss', the flow is in Failed and its content holds neither a
\* save-DC block nor a damage block, whether or not a saving throw is needed.
C1_MissAlwaysFails ==
    (_attack.attack_roll /\ HitAnswered /\ ~_hit) =>
        /\ FlowState = "Failed"
        /\ ~HasBlock("save")
        /\ ~HasBlock("damage")

C1_Witness ==
    /\ _attack.attack_roll
    /\ _attack.saving_throw
    /\ HitAnswered
    /\ ~_hit
    /\ FlowState = "Failed"

\* The three cases in which the damage is rolled.
DamageCase ==
    \/ ~_attack.attack_roll /\ ~_attack.saving_throw
    \/ _attack.attack_roll /\ HitAnswered /\ _hit /\ ~_attack.saving_throw
    \/ SaveAnswered /\ _failed

\* C2: a flow that reached a terminal state rolled the damage once when no
\* roll is needed, or the attack hit and no save is needed, or the save was
\* confirmed failed, and not at all otherwise; before that no damage is rolled.
C2_DamageExactlyWhen ==
    IF FlowState \in {"Complete", "Failed"}
    THEN CountBlocks("damage") = (IF DamageCase THEN 1 ELSE 0)
    ELSE CountBlocks("damage") = 0

C2_Witness ==
    /\ FlowState = "Complete"
    /\ _attack.attack_roll
    /\ ~_attack.saving_throw
    /\ _hit
    /\ CountBlocks("damage") = 1

\* C3: the save-DC block is in the content if and only if the attack needs a
\* saving throw and either needs no attack roll (and the roll was started) or
\* its attack roll was confirmed a hit; it is shown at most once.
C3_SavePromptIff ==
    /\ HasBlock("save") <=>
        /\ _attack.saving_throw
        /\ \/ ~_attack.attack_roll /\ FlowState \notin {"None", "Idle"}
           \/ _attack.attack_roll /\ HitAnswered /\ _hit
    /\ CountBlocks("save") <= 1

C3_Witness ==
    /\ FlowState = "SavingThrowPrompt"
    /\ _attack.attack_roll
    /\ _hit

\* C4: the block that follows the initial line is the attack roll when an
\* attack roll is needed (also when a save is), else the save DC when a save
\* is needed, else the damage, rolled with no button left to answer.
C4_FirstStepOrder ==
    Len(_content) >= 2 =>
        /\ _content[2].kind =
               (IF _attack.attack_roll THEN "attack"
                ELSE IF _attack.saving_throw THEN "save"
                ELSE "damage")
        /\ (~_attack.attack_roll /\ ~_attack.saving_throw) =>
               /\ Len(_content) = 2
               /\ confirm_children = <<>>
               /\ confirm_message.enabled = {}

C4_Witness ==
    /\ FlowState = "AttackRollPrompt"
    /\ _attack.attack_roll
    /\ _attack.saving_throw
    /\ Len(_content) = 2

\* C5: the failure notice is in the content exactly when the attack roll was
\* confirmed a miss or the save was confirmed succeeded; once it is there no
\* step changes the flow, and no content holds it together with a damage block.
C5_FailedExactlyAndTerminal ==
    /\ [](HasBlock("failed") <=>
            \/ _attack.attack_roll /\ HitAnswered /\ ~_hit
            \/ SaveAnswered /\ ~_failed)
    /\ [](~(HasBlock("failed") /\ HasBlock("damage")))
    /\ [][HasBlock("failed") => UNCHANGED flowVars]_vars

C5_Witness ==
    /\ FlowState = "Failed"
    /\ SaveAnswered
    /\ ~_failed

\* --------------------------------------------------- AttackWizard claims

IsPrefix(s, t) == Len(s) <= Len(t) /\ \A i \in DOMAIN s : s[i] = t[i]

\* The wizard's states in the order of the walk.
Rank(state) ==
    CASE state = "SelectRollTypes" -> 1
      [] state = "SelectAttribute" -> 2
      [] state = "SelectSavingThrowTarget" -> 3
      [] state = "SelectProficiency" -> 4
      [] state = "CollectModifiersAndDamage" -> 5
      [] state = "Complete" -> 6

\* C6: once a selection that holds 'Neither' was made, alone or with another
\* option, the type set is exactly {Neither}, the state entered after
\* SelectRollTypes is SelectProficiency, and neither SelectAttribute nor
\* SelectSavingThrowTarget was entered nor their buttons added to the view.
C6_NeitherSupersedes ==
    "Neither" \in dropdown.values =>
        /\ types = {"Neither"}
        /\ visited[2] = "SelectProficiency"
        /\ "SelectAttribute" \notin Range(visited)
        /\ "SelectSavingThrowTarget" \notin Range(visited)
        /\ Range(wizard_children) \cap (Range(attr_buttons) \cup Range(target_buttons)) = {}

C6_Witness ==
    /\ dropdown.values = {"Neither", "Attack Roll"}
    /\ WizardState = "Complete"

\* The walk of a wizard whose selection is {Attack Roll, Saving Throw}.
FullWalk ==
    <<"SelectRollTypes", "SelectAttribute", "SelectSavingThrowTarget",
      "SelectProficiency", "CollectModifiersAndDamage", "Complete">>

C8_AttributeThenTargetIffSave ==
    /\ \A i \in DOMAIN visited :
          (visited[i] = "SelectAttribute" /\ i < Len(visited)) =>
              visited[i + 1] =
                  (IF "Saving Throw" \in types THEN "SelectSavingThrowTarget"
                   ELSE "SelectProficiency")
    /\ types = {"Attack Roll"} =>
          /\ "SelectSavingThrowTarget" \notin Range(visited)
          /\ Range(wizard_children) \cap Range(target_buttons) = {}
          /\ target = ATTRIBUTES[1]

C8_Witness ==
    /\ types = {"Attack Roll"}
    /\ visited = <<"SelectRollTypes", "SelectAttribute", "SelectProficiency">>

\* C9: once the wizard is past a step, no step changes the value recorded
\* there: the type set after SelectRollTypes, the attribute after
\* SelectAttribute, the save target after SelectSavingThrowTarget, and, once
\* the modifiers/damage input was opened, the proficiency and the input form.
C9_OneWayWalk ==
    [][/\ Rank(WizardState) > Rank("SelectRollTypes") => types' = types
       /\ Rank(WizardState) > Rank("SelectAttribute") => attr' = attr
       /\ Rank(WizardState) > Rank("SelectSavingThrowTarget") => target' = target
       /\ Rank(WizardState) > Rank("SelectProficiency") =>
              /\ proficient' = proficient
              /\ input_modal' = input_modal]_vars

\* The event a state expects.
ExpectedEvent(state) ==
    CASE state = "SelectRollTypes" -> "type"
      [] state = "SelectAttribute" -> "attr"
      [] state = "SelectSavingThrowTarget" -> "target"
      [] state = "SelectProficiency" -> "confirm"
      [] state = "CollectModifiersAndDamage" -> "modal"
      [] state = "Complete" -> "none"

\* A step that handles an event of the given kind.
EventStep(kind) ==
    CASE kind = "type" -> \E values \in TypeSelections : type_callback(values)
      [] kind = "attr" -> \E custom_id \in Range(attr_buttons) : attr_callback(custom_id)
      [] kind = "target" -> \E custom_id \in Range(target_buttons) : target_callback(custom_id)
      [] kind = "confirm" -> \E custom_id \in Range(confirm_buttons) : confirm_callback(custom_id)
      [] kind = "modal" -> \E values \in ModalValues : modal_callback(values)

\* C10: a step that handles an event of a kind other than the one the
\* current state expects leaves the state and every collected value as
\* they were.
C10_UnexpectedEventIgnored ==
    [][\A kind \in {"type", "attr", "target", "confirm", "modal"} :
          (kind # ExpectedEvent(WizardState) /\ EventStep(kind)) =>
              /\ WizardState' = WizardState
              /\ UNCHANGED <<types, attr, target, proficient, modifiers, damage_roll,
                             input_modal>>]_vars

\* C11: the table holds a record exactly when the wizard is Complete, and
\* never more than one; only the submission of the modal inserts it, with the
\* values the wizard holds afterwards; once Complete, no step changes the
\* wizard or the table.
C11_InsertedOnceOnSubmit ==
    /\ [](Len(attacks) <= 1 /\ (attacks # <<>> <=> WizardState = "Complete"))
    /\ [][attacks' # attacks =>
            /\ modal_open
            /\ \E values \in ModalValues : modal_callback(values)
            /\ attacks' = Append(attacks, return_data(modifiers', damage_roll'))]_vars
    /\ [][WizardState = "Complete" => UNCHANGED <<wizardVars, attacks>>]_vars

C11_Witness ==
    /\ WizardState = "Complete"
    /\ Len(attacks) = 1
    /\ attacks[1].damage_roll = damage_roll
    /\ _content # <<>>

\* The text, of those submitted, in the first field that carries the label.
Supplied(values, label) ==
    values[CHOOSE i \in DOMAIN input_modal :
              /\ input_modal[i] = label
              /\ \A j \in 1..(i - 1) : input_modal[j] # label]

\* C12: the modal that was sent has the modifiers field exactly when the
\* types are not {Neither}, and always has the damage field; a submission
\* inserts a record that holds the modifier text supplied, or 0 when there
\* was no such field, and the damage text supplied, which is never a
\* modifier text.
C12_ModifierFieldIffNotNeither ==
    /\ [](modal_open =>
             /\ ModifiersLabel \in Range(input_modal) <=> types # {"Neither"}
             /\ DamageLabel \in Range(input_modal))
    /\ [][\A values \in ModalValues :
             modal_callback(values) =>
                 /\ attacks' # <<>>
                 /\ attacks'[Len(attacks')].modifiers =
                        (IF types # {"Neither"}
                         THEN StrVal(Supplied(values, ModifiersLabel))
                         ELSE IntVal(0))
                 /\ attacks'[Len(attacks')].damage_roll = Supplied(values, DamageLabel)
                 /\ attacks'[Len(attacks')].damage_roll \in DamageTexts \ ModifierTexts]_vars

C12_Witness ==
    /\ attacks # <<>>
    /\ types = {"Attack Roll", "Saving Throw"}
    /\ attacks[1].modifiers.str \in ModifierTexts
    /\ attacks[1].damage_roll \in DamageTexts

\* C13: a step whose event comes from a user other than the author of the
\* commands leaves the wizard and the flow, content included, as they were.
C13_OnlyAuthorChangesState ==
    [][user' # Author => UNCHANGED <<wizardVars, flowVars>>]_vars

\* ------------------------------------------------------- dice claims

\* The lines of the damage blocks of the content, in order.
DamageLines ==
    LET blocks == SelectSeq(_content, LAMBDA b : b.kind = "damage")
    IN  [i \in DOMAIN blocks |-> blocks[i].line]

\* C14: once the damage is rolled, the content holds one line for each
\* comma-separated expression of the attack's damage text, in the order of
\* the expressions: the lines are a result of parsing the text as a batch.
C14_DamageParsedAsBatch ==
    HasBlock("damage") =>
        /\ Len(DamageLines) = Len(split(_attack.damage_roll, ","))
        /\ \E run \in parse_roll(split(_attack.damage_roll, ",")) :
               ~run.raised /\ run.results = DamageLines

\* The kind of outcome a line is.
LineKind(line) ==
    IF line.text = RollFormat THEN "roll"
    ELSE IF line.text = DiceTypeMessage THEN "invalid dice type"
    ELSE IF line.text = SyntaxMessage THEN "no match"
    ELSE "other"

\* Line i of the response is an outcome of expression i parsed on its own,
\* of the kind the expression calls for.
OutcomeOfOwnExpression(specs, i) ==
    /\ LET e == extract(specs[i])
           line == response.lines[i]
       IN  CASE e.kind = "no match" -> line = Message(SyntaxMessage)
             [] e.kind = "invalid dice type" -> line = Message(DiceTypeMessage)
             [] e.kind = "roll" ->
                    /\ line.dice_rolls \in randint_lists(e.num_dice, e.dice_type)
                    /\ line = create_result_string(line.dice_rolls,
                                                   sum(line.dice_rolls) + e.modifier,
                                                   e.num_dice, e.dice_type, e.modifier,
                                                   e.modifier_str)
             [] OTHER -> FALSE
    /\ roll_pattern_match(strip(specs[i])).matched <=>
           LineKind(response.lines[i]) # "no match"
    /\ (/\ roll_pattern_match(strip(specs[i])).matched
        /\ DigitsValue(roll_pattern_match(strip(specs[i])).dice_type) \in valid_dice_types)
           <=> LineKind(response.lines[i]) = "roll"

\* C15: a /roll of n comma-separated expressions is answered with n lines,
\* line i being an outcome of expression i alone: an error message where
\* the expression is malformed or names an invalid dice type, a roll
\* wherever it is valid, whatever the other expressions are.
C15_BatchOutcomesIndependent ==
    response # NoResponse =>
        /\ response.status = "responded"
        /\ Len(response.lines) = Len(split(dice, ","))
        /\ \A i \in DOMAIN response.lines :
               OutcomeOfOwnExpression(split(dice, ","), i)

\* The faces of an expression that matches the grammar.
Matches(dice_spec) == roll_pattern_match(strip(dice_spec)).matched
Faces(dice_spec) == DigitsValue(roll_pattern_match(strip(dice_spec)).dice_type)

\* C16: every expression of a /roll that matches the grammar is rolled when
\* its faces are in the allowed set and is answered with the invalid dice
\* type message, which is not the syntax message, otherwise; roll_dice is
\* called once for each expression rolled and for no other; the command
\* does not raise.
C16_RolledIffFacesAllowed ==
    response # NoResponse =>
        LET specs == split(dice, ",")
        IN  /\ response.status = "responded"
            /\ \A i \in DOMAIN specs :
                   Matches(specs[i]) =>
                       /\ i \in DOMAIN response.lines
                       /\ IF Faces(specs[i]) \in valid_dice_types
                          THEN LineKind(response.lines[i]) = "roll"
                          ELSE response.lines[i] = Message(DiceTypeMessage)
            /\ DiceTypeMessage # SyntaxMessage
            /\ Len(rolled) =
                   Cardinality({i \in DOMAIN specs :
                                   Matches(specs[i]) /\ Faces(specs[i]) \in valid_dice_types})

\* C17: every call of roll_dice made for a /roll has a count of at least 1
\* and faces in the allowed set.
C17_RollerArgumentsValid ==
    \A i \in DOMAIN rolled :
        /\ rolled[i].num_dice >= 1
        /\ rolled[i].dice_type \in valid_dice_types

\* What the grammar's groups of a matching expression stand for: the
\* leading integer or 1, the integer after 'd', and the signed integer with
\* every whitespace character between sign and digits dropped, or 0.
CountOf(dice_spec) ==
    LET group == roll_pattern_match(strip(dice_spec)).num_dice
    IN  IF group = <<>> THEN 1 ELSE DigitsValue(group)

ModifierOf(dice_spec) ==
    LET group == roll_pattern_match(strip(dice_spec)).modifier
        digits == SelectSeq(group, LAMBDA c : c \in Digits)
    IN  IF group = <<>> THEN 0
        ELSE IF group[1] = "-" THEN -DigitsValue(digits)
        ELSE DigitsValue(digits)

\* C18: a /roll of one expression that matches the grammar with allowed
\* faces calls roll_dice with the count, faces and modifier the expression
\* stands for; '1d6+2' gives (1, 6, 2), 'd20-1' (1, 20, -1), '3d10'
\* (3, 10, 0) and '3d 10 - 3' (3, 10, -3).
C18_ParsedValues ==
    (/\ response # NoResponse
     /\ Len(split(dice, ",")) = 1
     /\ Matches(dice)
     /\ Faces(dice) \in valid_dice_types) =>
        /\ Len(rolled) = 1
        /\ rolled[1].num_dice = CountOf(dice)
        /\ rolled[1].dice_type = Faces(dice)
        /\ rolled[1].modifier = ModifierOf(dice)
        /\ dice = <<"1", "d", "6", "+", "2">> =>
               <<rolled[1].num_dice, rolled[1].dice_type, rolled[1].modifier>> = <<1, 6, 2>>
        /\ dice = <<"d", "2", "0", "-", "1">> =>
               <<rolled[1].num_dice, rolled[1].dice_type, rolled[1].modifier>> = <<1, 20, -1>>
        /\ dice = <<"3", "d", "1", "0">> =>
               <<rolled[1].num_dice, rolled[1].dice_type, rolled[1].modifier>> = <<3, 10, 0>>
        /\ dice = <<"3", "d", " ", "1", "0", " ", "-", " ", "3">> =>
               <<rolled[1].num_dice, rolled[1].dice_type, rolled[1].modifier>> = <<3, 10, -3>>

\* C19: every call of roll_dice with count c and faces f returned exactly c
\* die values, each in 1..f, in the order they were drawn.
C19_DieValuesInRange ==
    \A i \in DOMAIN rolled :
        /\ Len(rolled[i].dice_rolls) = rolled[i].num_dice
        /\ \A j \in DOMAIN rolled[i].dice_rolls :
               rolled[i].dice_rolls[j] \in 1..rolled[i].dice_type
        /\ rolled[i].dice_rolls = rolled[i].draws

\* Three dice, the lowest and the highest value among them, not in
\* ascending order.
C19_Witness ==
    /\ rolled # <<>>
    /\ rolled[1].num_dice = 3
    /\ rolled[1].dice_rolls[1] = rolled[1].dice_type
    /\ rolled[1].dice_rolls[2] = 1
    /\ rolled[1].dice_rolls[3] = 5

\* C20: the total every call of roll_dice returned is the sum of its die
\* values plus its modifier, whatever the sign of the result; with modifier
\* 0 it is the sum.
C20_TotalIsSumPlusModifier ==
    \A i \in DOMAIN rolled :
        /\ rolled[i].total = sum(rolled[i].dice_rolls) + rolled[i].modifier
        /\ rolled[i].modifier = 0 => rolled[i].total = sum(rolled[i].dice_rolls)

\* A roll with a negative modifier whose total is below zero.
C20_Witness ==
    /\ rolled # <<>>
    /\ rolled[1].num_dice = 1
    /\ rolled[1].modifier = -9
    /\ rolled[1].dice_rolls = <<6>>
    /\ rolled[1].total = -3
    /\ response.status = "responded"
    /\ response.lines[1].total = -3

\* ------------------------------------------------- the bonus functions

\* calc_proficiency_bonus(char_level) and calc_ability_modifier(ability_score)
\* called with their default modifiers.
calc_proficiency_bonus_call ==
    /\ calc_return = NoReturn
    /\ calc_return' =
           [of |-> "calc_proficiency_bonus",
            value |-> calc_proficiency_bonus(calc_args.char_level, 0)]
    /\ UNCHANGED <<calc_args, shown, wizardVars, attacks, flowVars, rollVars, charVars,
                   rolled, user>>

calc_ability_modifier_call ==
    /\ calc_return = NoReturn
    /\ calc_return' =
           [of |-> "calc_ability_modifier",
            value |-> calc_ability_modifier(calc_args.ability_score, 0)]
    /\ UNCHANGED <<calc_args, shown, wizardVars, attacks, flowVars, rollVars, charVars,
                   rolled, user>>

\* Either function, called with any level and score.
InitCalc ==
    /\ WizardInit /\ attacks = <<>> /\ FlowInit /\ RollIdle /\ CharIdle
    /\ user = Author
    /\ calc_args \in [char_level : LevelArgs, ability_score : ScoreArgs]
    /\ calc_return = NoReturn
    /\ shown = Message("")

NextCalc == calc_proficiency_bonus_call \/ calc_ability_modifier_call

SpecCalc == InitCalc /\ [][NextCalc]_vars

\* C23: the ability modifier returned for a score is the greatest integer m
\* with 2 * m <= score - 10; it is 0 for 10, -1 for 8 and for 9, -2 for 7
\* and 5 for 20.
C23_AbilityModifierFloors ==
    calc_return.of = "calc_ability_modifier" =>
        /\ 2 * calc_return.value <= calc_args.ability_score - 10
        /\ calc_args.ability_score - 10 < 2 * (calc_return.value + 1)
        /\ calc_args.ability_score = 10 => calc_return.value = 0
        /\ calc_args.ability_score = 8 => calc_return.value = -1
        /\ calc_args.ability_score = 9 => calc_return.value = -1
        /\ calc_args.ability_score = 7 => calc_return.value = -2
        /\ calc_args.ability_score = 20 => calc_return.value = 5

\* An odd score below 10.
C23_Witness ==
    /\ calc_return = [of |-> "calc_ability_modifier", value |-> -2]
    /\ calc_args.ability_score = 7

\* C24: the proficiency bonus returned for a level below 1 is 0; for a
\* level of at least 1 it is 2 more than the greatest integer q with
\* 4 * q <= level - 1; it is 2 for levels 1 and 4, 3 for level 5 and 0 for
\* level 0.
C24_ProficiencyBonusSteps ==
    calc_return.of = "calc_proficiency_bonus" =>
        /\ calc_args.char_level < 1 => calc_return.value = 0
        /\ calc_args.char_level >= 1 =>
               /\ 4 * (calc_return.value - 2) <= calc_args.char_level - 1
               /\ calc_args.char_level - 1 < 4 * (calc_return.value - 1)
        /\ calc_args.char_level = 1 => calc_return.value = 2
        /\ calc_args.char_level = 4 => calc_return.value = 2
        /\ calc_args.char_level = 5 => calc_return.value = 3
        /\ calc_args.char_level = 0 => calc_return.value = 0

\* The last level of the first step.
C24_Witness ==
    /\ calc_return = [of |-> "calc_proficiency_bonus", value |-> 2]
    /\ calc_args.char_level = 4

\* ------------------------------------------- show_attack and show_save
\* The two functions applied to characters and attacks drawn from bounded
\* sets: the view is built as /attack roll builds it, then one of the two is
\* called.

BonusLevels == {1, 5, 17}
BonusScores == {1, 9, 10, 20, 30}
BonusAttributes == {"Strength", "Dexterity"}

BonusCharacters ==
    {Character(CharacterId, Author, CharacterName, level,
               <<score, ABILITY_DEFAULT, ABILITY_DEFAULT, ABILITY_DEFAULT,
                 ABILITY_DEFAULT, ABILITY_DEFAULT>>) :
         level \in BonusLevels, score \in BonusScores}

BonusAttacks ==
    {[cid |-> CharacterId, name |-> AttackName, attack_roll |-> attack_roll,
      saving_throw |-> saving_throw, attribute |-> attribute,
      target |-> save_target, proficient |-> is_proficient,
      modifiers |-> flat, damage_roll |-> <<"1", "d", "4">>] :
         attack_roll \in BOOLEAN, saving_throw \in BOOLEAN,
         attribute \in BonusAttributes, save_target \in BonusAttributes,
         is_proficient \in BOOLEAN,
         flat \in {IntVal(0)} \cup {StrVal(text) : text \in ModifierTexts}}

show_attack_call ==
    /\ shown = Message("")
    /\ _attack.attack_roll
    /\ \E draws \in randint_lists(1, 20) :
           /\ shown' = show_attack(_character, _attack, draws).line
           /\ rolled' = Append(rolled, show_attack(_character, _attack, draws).call)
    /\ UNCHANGED <<calc_args, calc_return, wizardVars, attacks, flowVars, rollVars,
                   charVars, user>>

show_save_call ==
    /\ shown = Message("")
    /\ _attack.saving_throw
    /\ shown' = SaveBlock(_attack.target, show_save(_character, _attack)).line
    /\ UNCHANGED <<calc_args, calc_return, wizardVars, attacks, flowVars, rollVars,
                   charVars, rolled, user>>

InitBonus ==
    /\ WizardInit
    /\ attacks = <<>>
    /\ _character \in BonusCharacters
    /\ _attack \in BonusAttacks
    /\ _hit = FALSE
    /\ _failed = FALSE
    /\ _content = <<InitBlock>>
    /\ confirm_children = <<RollId>>
    /\ confirm_disabled = {}
    /\ confirm_message = Render(InitBlock.text, <<RollId>>, {})
    /\ RollIdle
    /\ CharIdle
    /\ CalcIdle
    /\ user = Author

NextBonus ==
    \/ show_attack_call
    \/ show_save_call

SpecBonus == InitBonus /\ [][NextBonus]_vars

\* abilityModifier(score of the attack's attribute) + proficiencyBonus(level)
\* if the attack is proficient + the attack's flat modifiers.
TotalBonusOf(character, attack) ==
    calc_ability_modifier(character[lower(attack.attribute)], 0)
        + (IF attack.proficient THEN calc_proficiency_bonus(character.level, 0) ELSE 0)
        + modifiers_column(attack.modifiers)

\* C21: the attack roll is one d20 draw plus the total bonus (ability
\* modifier of the attack's attribute, proficiency bonus if proficient, flat
\* modifiers), and the total displayed is the d20 value plus that bonus.
C21_AttackRollIsD20PlusBonus ==
    shown.text = RollFormat =>
        /\ shown.num_dice = 1
        /\ shown.dice_type = 20
        /\ Len(shown.dice_rolls) = 1
        /\ shown.dice_rolls[1] \in 1..20
        /\ shown.total = shown.dice_rolls[1] + TotalBonusOf(_character, _attack)
        /\ Len(rolled) = 1
        /\ rolled[1].num_dice = 1
        /\ rolled[1].dice_type = 20
        /\ rolled[1].modifier = TotalBonusOf(_character, _attack)

\* An attack line of a proficient attack with a negative ability modifier
\* has been made.
C21_Witness ==
    /\ shown.text = RollFormat
    /\ _attack.proficient
    /\ _attack.attribute = "Strength"
    /\ _character.strength = 9
    /\ _character.level = 17
    /\ shown.dice_rolls = <<20>>
    /\ shown.total = 20 - 1 + 6 + modifiers_column(_attack.modifiers)

\* C22: the save DC shown is the ability modifier of the score of the
\* attack's attribute (not of the save's target) + the proficiency bonus if
\* proficient + the flat modifiers + 8, whether the saving throw prompt comes
\* first or after a confirmed hit.
C22_SaveDCFromAttackAttribute ==
    \A i \in DOMAIN _content :
        _content[i].kind = "save" =>
            /\ _content[i].line.total = TotalBonusOf(_character, _attack) + 8
            /\ _content[i].text = SaveBlock(_attack.target, 0).text

\* The save DC is shown after a confirmed hit, for an attack whose attribute
\* and save target have different scores.
C22_Witness ==
    /\ Len(_content) = 3
    /\ _content[2].kind = "attack"
    /\ _content[3].kind = "save"
    /\ _attack.attribute = "Wisdom"
    /\ _attack.target = "Dexterity"
    /\ _content[3].line.total = 5 + (IF _attack.proficient THEN 3 ELSE 0)
                                  + modifiers_column(_attack.modifiers) + 8

\* The roll lines of the response, in order: the k-th is the line of the
\* k-th call of roll_dice.
RollLines == SelectSeq(response.lines, LAMBDA line : LineKind(line) = "roll")

\* C25: a roll line of /roll shows the signed modifier after
\* '{count}d{faces}' exactly when the modifier is not 0, and shows '-' and
\* the absolute value for a negative modifier, '+' and the value otherwise.
C25_ModifierShownIffNonzero ==
    response.status = "responded" =>
        \A k \in DOMAIN RollLines :
            /\ k \in DOMAIN rolled
            /\ (RollLines[k].modifier_str # <<>>) <=> (rolled[k].modifier # 0)
            /\ RollLines[k].sign = (IF rolled[k].modifier < 0 THEN "-" ELSE "+")
            /\ RollLines[k].abs_modifier = abs(rolled[k].modifier)

\* The whole text is one expression of the grammar
\* \d*\s*d\s*\d+\s*([+-]\s*\d+)? and nothing more.
WholeTextMatches(s) ==
    LET i1 == Span(s, 1, Digits)
        i2 == Span(s, i1, Whitespace)
        i3 == Span(s, i2 + 1, Whitespace)
        i4 == Span(s, i3, Digits)
        i5 == Span(s, i4, Whitespace)
        i6 == Span(s, i5 + 1, Whitespace)
        i7 == Span(s, i6, Digits)
    IN  /\ i2 <= Len(s)
        /\ s[i2] = "d"
        /\ i4 > i3
        /\ \/ i5 = Len(s) + 1
           \/ i5 <= Len(s) /\ s[i5] \in Signs /\ i7 > i6 /\ i7 = Len(s) + 1

\* C27: an expression of a /roll whose trimmed text is not wholly an
\* expression of the grammar is answered with the syntax message, and no
\* dice are rolled for it: roll_dice is called only for expressions that
\* match as a whole.
C27_WholeTextMustMatch ==
    response.status = "responded" =>
        LET specs == split(dice, ",")
        IN  /\ \A i \in DOMAIN specs :
                   ~WholeTextMatches(strip(specs[i])) =>
                       /\ i \in DOMAIN response.lines
                       /\ response.lines[i] = Message(SyntaxMessage)
            /\ Len(rolled) <=
                   Cardinality({i \in DOMAIN specs : WholeTextMatches(strip(specs[i]))})

\* A callback of the flow runs whose next step is roll_damage.
DamageRollPrompted ==
    \/ roll_prompt_callback /\ roll_prompt_next(_attack) = "roll_damage"
    \/ \E custom_id \in Range(_attack_buttons) :
           /\ attack_hit_callback(custom_id)
           /\ attack_hit_next(_attack, custom_id = "aYes") = "roll_damage"
    \/ \E custom_id \in Range(_save_buttons) :
           /\ save_failed_callback(custom_id)
           /\ save_failed_next(custom_id = "Yes") = "roll_damage"

\* C26: whatever damage text the attack holds, the step that rolls the
\* damage appends one line to the content, the roll line or the error
\* message of parse_roll, and leaves the flow Complete: it does not raise.
C26_DamageStepNeverFatal ==
    [][DamageRollPrompted =>
           /\ Len(_content') = Len(_content) + 1
           /\ _content'[Len(_content')].kind = "damage"
           /\ LineKind(_content'[Len(_content')].line) \in
                  {"roll", "no match", "invalid dice type"}
           /\ FlowStateOf(_content', confirm_message') = "Complete"]_vars

\* The kinds of the content's blocks, in order.
KindsOf(content) == [i \in DOMAIN content |-> content[i].kind]

\* The orders the claim allows: the init line, then the attack line if any,
\* then the save line if any, then at most one final outcome.
PromptOrders ==
    {<<"init">>, <<"init", "attack">>, <<"init", "save">>, <<"init", "attack", "save">>}

AllowedOrders ==
    {<<>>} \cup PromptOrders
        \cup {Append(order, final) : order \in PromptOrders, final \in {"damage", "failed"}}

\* C29: the content of the flow only grows by appending: its first block
\* stays the init line, a step appends at most one block and leaves the
\* blocks before it as they were, and the blocks come in the order attack
\* line (if any), save line (if any), then one final outcome, the damage
\* result or the failure notice, after which nothing is appended.
C29_ContentOnlyAppends ==
    /\ [](/\ KindsOf(_content) \in AllowedOrders
          /\ _content # <<>> => _content[1] = InitBlock)
    /\ [][\/ _content' = _content
          \/ /\ Len(_content') = Len(_content) + 1
             /\ SubSeq(_content', 1, Len(_content)) = _content]_vars

\* The longest content: init, attack line, save line and the damage result.
C29_Witness ==
    KindsOf(_content) = <<"init", "attack", "save", "damage">>

\* ------------------------------------------------- /character delete
\* The wizard of /attack add, started for the character, next to the
\* deletion of the character.

\* /character delete: the character is looked up and the DeleteCharacter
\* view built on its row.
character_delete_command(character) ==
    /\ getCharacter(characters, Author, character) # NoCharacter
    /\ delete_view' = [cid |-> getCharacter(characters, Author, character).cid,
                       name |-> character]
    /\ UNCHANGED <<characters, next_cid, wizardVars, attacks, flowVars, rollVars, calcVars,
                   rolled>>

\* DeleteCharacter.button_callback: the character's row and the attacks
\* with its cid are deleted, and the message is left without a view.
DeleteCharacter_button_callback ==
    /\ delete_view # NoView
    /\ characters' = SelectSeq(characters, LAMBDA row : row.cid # delete_view.cid)
    /\ attacks' = SelectSeq(attacks, LAMBDA row : row.cid # delete_view.cid)
    /\ delete_view' = NoView
    /\ UNCHANGED <<next_cid, wizardVars, flowVars, rollVars, calcVars, rolled>>

NextDelete ==
    \/ \E values \in TypeSelections : type_callback(values) /\ user' = Author
    \/ \E custom_id \in Range(attr_buttons) : attr_callback(custom_id) /\ user' = Author
    \/ \E custom_id \in Range(target_buttons) : target_callback(custom_id) /\ user' = Author
    \/ \E custom_id \in Range(confirm_buttons) : confirm_callback(custom_id) /\ user' = Author
    \/ \E values \in ModalValues : modal_callback(values) /\ user' = Author
    \/ character_delete_command(CharacterName) /\ user' = Author
    \/ DeleteCharacter_button_callback /\ user' = Author

SpecDelete == Init /\ [][NextDelete]_vars

\* C28: every attack's cid is the cid of a character of the table: no
\* attack is left, or inserted, for a character that was deleted.
C28_NoAttackOfDeletedCharacter ==
    \A i \in DOMAIN attacks : \E j \in DOMAIN characters : characters[j].cid = attacks[i].cid

\* ------------------------------------- /character create, edit name
\* One user's /character create, /character edit name and
\* /character delete, with names drawn from NameArgs.

MAX_CHARACTERS == 5

NameArgs == {CharacterName, "Bob"}

\* get_player_characters: the names of the user's characters, one for each
\* row.
get_player_characters(uid) ==
    LET rows == SelectSeq(characters, LAMBDA row : row.uid = uid)
    IN  [i \in DOMAIN rows |-> rows[i].name]

\* The name /character create inserts: ' Jr.' is added while the name is
\* one of _characters.
RECURSIVE next_of_kin(_, _)
next_of_kin(name, _characters) ==
    IF name \in Range(_characters)
    THEN next_of_kin(name \o " Jr.", _characters)
    ELSE name

\* /character create: below MAX_CHARACTERS a row is inserted, under the
\* next cid; otherwise the command only answers.
character_create_command(name) ==
    /\ Len(get_player_characters(Author)) < MAX_CHARACTERS => next_cid <= MaxCid
    /\ IF Len(get_player_characters(Author)) < MAX_CHARACTERS
       THEN /\ characters' =
                   Append(characters,
                          Character(next_cid, Author,
                                    next_of_kin(name, get_player_characters(Author)),
                                    TheCharacter.level,
                                    <<TheCharacter.strength, TheCharacter.dexterity,
                                      TheCharacter.constitution, TheCharacter.intelligence,
                                      TheCharacter.wisdom, TheCharacter.charisma>>))
            /\ next_cid' = next_cid + 1
       ELSE UNCHANGED <<characters, next_cid>>
    /\ UNCHANGED <<delete_view, wizardVars, attacks, flowVars, rollVars, calcVars, rolled>>

\* set_character_attribute(uid, character, "name", value), as
\* /character edit name calls it: the row found by uid and name is updated
\* by its cid.
set_character_name(uid, character, value) ==
    /\ characters' =
           IF getCharacter(characters, uid, character) = NoCharacter THEN characters
           ELSE [i \in DOMAIN characters |->
                    IF characters[i].cid = getCharacter(characters, uid, character).cid
                    THEN [characters[i] EXCEPT !.name = value]
                    ELSE characters[i]]
    /\ UNCHANGED <<next_cid, delete_view, wizardVars, attacks, flowVars, rollVars, calcVars,
                   rolled>>

NextCharacters ==
    \/ \E name \in NameArgs : character_create_command(name) /\ user' = Author
    \/ \E character \in Range(get_player_characters(Author)), name \in NameArgs :
           set_character_name(Author, character, name) /\ user' = Author
    \/ \E character \in Range(get_player_characters(Author)) :
           character_delete_command(character) /\ user' = Author
    \/ DeleteCharacter_button_callback /\ user' = Author

SpecCharacters == Init /\ [][NextCharacters]_vars

\* C30: no two characters of one user have the same name.
C30_NamesUniquePerUser ==
    \A i, j \in DOMAIN characters :
        (i # j /\ characters[i].uid = characters[j].uid) =>
            characters[i].name # characters[j].name

====
